---- MODULE Spec2Model ----
(***************************************************************************)
(* The access-grant lifecycle of Salud in demo mode: SaludAleoClient       *)
(* (frontend/src/lib/aleo/client.ts, the DEMO_MODE branches) on top of     *)
(* DemoStorageService (lib/aleo/demo-storage.ts, src/unnamed/part_008).     *)
(*                                                                         *)
(* Strings that the code inspects character by character (record ids,      *)
(* addresses, nonces, tokens, the persisted block height) are sequences of *)
(* UTF-16 code units; messages that are only compared are TLA+ strings.    *)
(* localStorage items holding JSON are modelled by the value that          *)
(* JSON.parse returns for them (a missing item parses to the empty map).   *)
(* Calls are made one at a time and awaited, so each handler is one step.  *)
(***************************************************************************)
EXTENDS Integers, Sequences, FiniteSets, TLC

\* ------------------------------------------------------------------------
\* Bounds of the model
\* ------------------------------------------------------------------------
MaxBlock == 1          \* Date.now()/15000 advances at most to StartBlock + MaxBlock
MaxGrants == 1         \* distinct tokens held by the ACCESS_GRANTS item

StartBlock == 0

\* record ids grants are issued for ("r") and ids a verifier may claim ("r", "r1")
RecordIds == { <<114>> }
ClaimedRecordIds == { <<114>>, <<114, 49>> }
\* "1d" and "d": the addresses of the accounts, patients and doctors alike
Addresses == { <<49, 100>>, <<100>> }
\* the AleoMedicalRecord objects a caller may pass to grantAccess
MedicalRecords == [ record_id : RecordIds, owner : Addresses ]
\* "n": a caller that reuses its nonce
Nonces == { <<110>> }
\* durationBlocks a caller may pass: zero, one block, the documented minimum
Durations == { 0, 1, 240 }
\* "at1": the value generateTransactionId returns
TxIds == { <<97, 116, 49>> }

\* client calls that can be suspended at the same time
MaxCalls == 2
Calls == 1 .. MaxCalls

NoAccount == <<>>
\* localStorage.getItem of a missing item: null, falsy like the empty string
NoItem == <<>>

\* types.ts: access duration limits (from contract)
BLOCK_TIME_SECONDS == 15
MIN_ACCESS_DURATION_BLOCKS == 240
MAX_ACCESS_DURATION_BLOCKS == 40320

VARIABLES
    wallBlock,             \* Math.floor(Date.now() / 15000)
    simulatedBlockHeight,  \* DemoStorageService.simulatedBlockHeight
    blockHeightItem,       \* localStorage[salud_demo_block_height]
    accessGrants,          \* localStorage[salud_demo_access_grants]
    accessTokens,          \* localStorage[salud_demo_access_tokens]
    transactions,          \* localStorage[salud_demo_transactions]
    demoAccount,           \* SaludAleoClient.demoAccount.address, or NoAccount
    lastResult,            \* what the call made in the last step returned (NoResult: no call)
    calls,                 \* the client calls that are suspended at an await
    appGrants              \* Main APP: accessGrants of useRecordsStore, newest first

vars == << wallBlock, simulatedBlockHeight, blockHeightItem, accessGrants,
           accessTokens, transactions, demoAccount, lastResult, calls,
           appGrants >>

\* ------------------------------------------------------------------------
\* Number <-> string conversions used for the persisted block height
\* ------------------------------------------------------------------------
RECURSIVE DecimalDigits(_)
DecimalDigits(n) ==
    IF n < 10 THEN << 48 + n >>
    ELSE Append(DecimalDigits(n \div 10), 48 + (n % 10))

\* String(n) for a non-negative integer
NumberToString(n) == DecimalDigits(n)

RECURSIVE ParseDigits(_, _)
ParseDigits(s, acc) ==
    IF s = <<>> \/ Head(s) < 48 \/ Head(s) > 57 THEN acc
    ELSE ParseDigits(Tail(s), acc * 10 + (Head(s) - 48))

\* parseInt(s, 10) for a string that starts with a digit
parseInt(s) == ParseDigits(s, 0)

\* ------------------------------------------------------------------------
\* DemoStorageService.computeAccessToken
\* The 32-bit hash is kept as << high 16 bits, low 16 bits >>.
\* ------------------------------------------------------------------------
\* hash = ((hash << 5) - hash) + char; hash = hash & hash
HashStep(h, c) ==
    LET lo == h[2] * 31 + c
        hi == h[1] * 31 + (lo \div 65536)
    IN  << hi % 65536, lo % 65536 >>

\* for (let i = 0; i < combined.length; i++), with i counted from 1
RECURSIVE HashLoop(_, _, _)
\* (the test on next makes TLC evaluate each iteration before the following one)
HashLoop(str, i, h) ==
    IF i > Len(str) THEN h
    ELSE LET next == HashStep(h, str[i])
         IN  IF next[1] >= 0 THEN HashLoop(str, i + 1, next) ELSE next

\* Math.abs of the int32 whose bits are h (abs(-2^31) = 2^31)
MathAbs(h) ==
    IF h[1] < 32768 THEN h
    ELSE << (65535 - h[1] + (IF h[2] = 0 THEN 1 ELSE 0)) % 65536,
            (65536 - h[2]) % 65536 >>

HexChar(d) == IF d < 10 THEN 48 + d ELSE 87 + d

\* the four hex digits of a 16-bit half
Hex4(x) ==
    << HexChar(x \div 4096), HexChar((x \div 256) % 16),
       HexChar((x \div 16) % 16), HexChar(x % 16) >>

\* n.toString(16).padStart(16, '0') for 0 <= n <= 2^31
ToHexPadded16(h) ==
    << 48, 48, 48, 48, 48, 48, 48, 48 >> \o Hex4(h[1]) \o Hex4(h[2])

\* "field"
FieldSuffix == << 102, 105, 101, 108, 100 >>

computeAccessToken(recordId, doctor, nonce) ==
    LET combined == recordId \o doctor \o nonce
        hash == HashLoop(combined, 1, << 0, 0 >>)
    IN  ToHexPadded16(MathAbs(hash)) \o FieldSuffix

\* every token the inputs of the model derive
AllTokens ==
    { computeAccessToken(r, d, n) : r \in RecordIds, d \in Addresses, n \in Nonces }

\* ------------------------------------------------------------------------
\* DemoStorageService: block height
\* ------------------------------------------------------------------------
\* the value getCurrentBlockHeight returns
CurrentBlockHeight == IF wallBlock > simulatedBlockHeight THEN wallBlock
                      ELSE simulatedBlockHeight

\* the writes getCurrentBlockHeight makes
getCurrentBlockHeight ==
    IF wallBlock > simulatedBlockHeight
    THEN /\ simulatedBlockHeight' = wallBlock
         /\ blockHeightItem' = NumberToString(wallBlock)
    ELSE UNCHANGED << simulatedBlockHeight, blockHeightItem >>

\* ------------------------------------------------------------------------
\* DemoStorageService: grants, tokens, transactions
\* ------------------------------------------------------------------------
\* m[k] = v on a parsed JSON map
Put(m, k, v) == [ x \in (DOMAIN m) \cup {k} |-> IF x = k THEN v ELSE m[x] ]

EmptyMap == [ x \in {} |-> 0 ]

DemoAccessGrant(token, patient, doctor, recordId, grantedAt, expiresAt) ==
    [ accessToken |-> token, patient |-> patient, doctor |-> doctor,
      recordId |-> recordId, grantedAt |-> grantedAt, expiresAt |-> expiresAt,
      isRevoked |-> FALSE ]

HasGrant(token) == token \in DOMAIN accessGrants

\* storeAccessGrant that writes a map holding nothing but the new grant
storeAccessGrant_DropsOthers(grant) ==
    /\ accessGrants' = Put(EmptyMap, grant.accessToken, grant)
    /\ accessTokens' = Put(EmptyMap, grant.accessToken, TRUE)

storeAccessGrant(grant) ==
    /\ accessGrants' = Put(accessGrants, grant.accessToken, grant)
    /\ accessTokens' = Put(accessTokens, grant.accessToken, TRUE)

\* revokeAccessGrant that deletes the grant and its token entry
revokeAccessGrant_Removes(token) ==
    /\ accessGrants' = [ k \in DOMAIN accessGrants \ {token} |-> accessGrants[k] ]
    /\ accessTokens' = [ k \in DOMAIN accessTokens \ {token} |-> accessTokens[k] ]

\* revokeAccessGrant that leaves the token entry as it is
revokeAccessGrant_KeepsTokenEntry(token) ==
    IF ~ HasGrant(token)
    THEN UNCHANGED << accessGrants, accessTokens >>
    ELSE /\ accessGrants' = [ accessGrants EXCEPT ![token].isRevoked = TRUE ]
         /\ UNCHANGED accessTokens

revokeAccessGrant(token) ==
    IF ~ HasGrant(token)
    THEN UNCHANGED << accessGrants, accessTokens >>
    ELSE /\ accessGrants' = [ accessGrants EXCEPT ![token].isRevoked = TRUE ]
         /\ accessTokens' = Put(accessTokens, token, FALSE)

isAccessTokenValid(token) ==
    IF ~ HasGrant(token) THEN FALSE
    ELSE /\ ~ accessGrants[token].isRevoked
         /\ accessGrants[token].expiresAt > CurrentBlockHeight

storeTransaction(id, type, status) ==
    transactions' = Put(transactions, id, [ type |-> type, status |-> status ])

\* Object.values(KEYS).forEach((key) => localStorage.removeItem(key))
clearAll ==
    /\ blockHeightItem' = NoItem
    /\ accessGrants' = EmptyMap
    /\ accessTokens' = EmptyMap
    /\ transactions' = EmptyMap

\* ------------------------------------------------------------------------
\* Results handed back to the caller (return value and status callback)
\* ------------------------------------------------------------------------
NoBlock == 0 - 1
NoToken == <<>>

\* getAccessGrant of a token that has no grant: null
NoGrant == [ accessToken |-> NoToken ]

Result(op, token, doctor, recordId, duration, success, error, isValid, failReason, block) ==
    [ op |-> op, accessToken |-> token, doctorAddress |-> doctor,
      recordId |-> recordId, durationBlocks |-> duration,
      success |-> success, error |-> error,
      isValid |-> isValid, failReason |-> failReason, block |-> block,
      recordOwner |-> NoAccount, grant |-> NoGrant ]

\* the result of a grantAccess call, with the record the caller passed
GrantResult(medicalRecord, token, doctor, duration, success, error, block) ==
    [ Result("grant_access", token, doctor, medicalRecord.record_id, duration,
             success, error, FALSE, "", block)
      EXCEPT !.recordOwner = medicalRecord.owner ]

NoResult ==
    Result("none", NoToken, NoAccount, <<>>, 0, FALSE, "", FALSE, "",
           NoBlock)

\* a call slot in which no call is running
IdleCall ==
    [ pc |-> "idle", input |-> <<>>, grant |-> NoGrant, peers |-> {},
      result |-> NoResult ]

\* ------------------------------------------------------------------------
\* Initial state: a fresh browser profile, module loaded, nobody connected
\* ------------------------------------------------------------------------
Init ==
    /\ wallBlock = StartBlock
    /\ simulatedBlockHeight = StartBlock
    /\ blockHeightItem = NoItem
    /\ accessGrants = EmptyMap
    /\ accessTokens = EmptyMap
    /\ transactions = EmptyMap
    /\ demoAccount = NoAccount
    /\ lastResult = NoResult
    /\ calls = [ c \in Calls |-> IdleCall ]
    /\ appGrants = <<>>

\* ------------------------------------------------------------------------
\* Environment
\* ------------------------------------------------------------------------
\* a wall clock that can also be set back
Tick_Backwards ==
    /\ \E b \in StartBlock .. (StartBlock + MaxBlock) :
          b # wallBlock /\ wallBlock' = b
    /\ lastResult' = NoResult
    /\ UNCHANGED << calls, appGrants >>
    /\ UNCHANGED << simulatedBlockHeight, blockHeightItem, accessGrants,
                    accessTokens, transactions, demoAccount >>

\* wall-clock time passes
Tick ==
    /\ wallBlock < StartBlock + MaxBlock
    /\ wallBlock' = wallBlock + 1
    /\ lastResult' = NoResult
    /\ UNCHANGED << calls, appGrants >>
    /\ UNCHANGED << simulatedBlockHeight, blockHeightItem, accessGrants,
                    accessTokens, transactions, demoAccount >>

\* page reload: the module singletons are constructed again
Reload ==
    /\ simulatedBlockHeight' =
          IF blockHeightItem # NoItem THEN parseInt(blockHeightItem)
          ELSE wallBlock
    /\ demoAccount' = NoAccount
    /\ lastResult' = NoResult
    /\ UNCHANGED << calls, appGrants >>
    /\ UNCHANGED << wallBlock, blockHeightItem, accessGrants, accessTokens,
                    transactions >>

\* SaludAleoClient.connect in demo mode, for a key whose address is a
Connect(a) ==
    /\ demoAccount' = a
    /\ lastResult' = NoResult
    /\ UNCHANGED << calls, appGrants >>
    /\ UNCHANGED << wallBlock, simulatedBlockHeight, blockHeightItem,
                    accessGrants, accessTokens, transactions >>

\* SaludAleoClient.disconnect
Disconnect ==
    /\ demoAccount # NoAccount
    /\ demoAccount' = NoAccount
    /\ lastResult' = NoResult
    /\ UNCHANGED << calls, appGrants >>
    /\ UNCHANGED << wallBlock, simulatedBlockHeight, blockHeightItem,
                    accessGrants, accessTokens, transactions >>

\* SaludAleoClient.clearDemoData
clearDemoData ==
    /\ clearAll
    /\ lastResult' = Result("clear_demo_data", NoToken, NoAccount, <<>>, 0,
                            TRUE, "", FALSE, "", NoBlock)
    /\ UNCHANGED << wallBlock, simulatedBlockHeight, demoAccount, calls,
                    appGrants >>

\* SaludAleoClient.getAccessInfo, demo mode
getAccessInfo(accessToken) ==
    [ exists |-> HasGrant(accessToken),
      grant |-> IF HasGrant(accessToken) THEN accessGrants[accessToken]
                ELSE NoGrant ]

\* ------------------------------------------------------------------------
\* SaludAleoClient.grantAccess, demo mode
\* ------------------------------------------------------------------------
\* medicalRecord is the AleoMedicalRecord the caller passes: its record_id and
\* its owner field
grantAccess(medicalRecord, doctorAddress, durationBlocks, nonce, txId) ==
    IF demoAccount = NoAccount
    THEN /\ lastResult' = GrantResult(medicalRecord, NoToken, doctorAddress,
                                      durationBlocks, FALSE, "Not connected",
                                      NoBlock)
         /\ UNCHANGED << wallBlock, simulatedBlockHeight, blockHeightItem,
                         accessGrants, accessTokens, transactions, demoAccount >>
    ELSE LET currentBlock == CurrentBlockHeight
             record_id == medicalRecord.record_id
             accessToken == computeAccessToken(record_id, doctorAddress, nonce)
             grant == DemoAccessGrant(accessToken, demoAccount, doctorAddress,
                                      record_id, currentBlock,
                                      currentBlock + durationBlocks)
         IN  /\ getCurrentBlockHeight
             /\ storeAccessGrant(grant)
             /\ storeTransaction(txId, "grant_access", "confirmed")
             /\ lastResult' = GrantResult(medicalRecord, accessToken,
                                          doctorAddress, durationBlocks, TRUE,
                                          "", currentBlock)
             /\ UNCHANGED << wallBlock, demoAccount >>

\* ------------------------------------------------------------------------
\* SaludAleoClient.verifyAccess, demo mode
\* ------------------------------------------------------------------------
\* the validation chain without its isRevoked test
FailReason_IgnoresRevoked(accessToken, doctorAddress, recordId) ==
    IF ~ HasGrant(accessToken) THEN "Access token not found"
    ELSE IF accessGrants[accessToken].doctor # doctorAddress
         THEN "Doctor address mismatch"
    ELSE IF accessGrants[accessToken].recordId # recordId
         THEN "Record ID mismatch"
    ELSE IF accessGrants[accessToken].expiresAt <= CurrentBlockHeight
         THEN "Access has expired"
    ELSE ""

\* the validation chain with the expiry block itself still inside the window
FailReason_ExpiryInclusive(accessToken, doctorAddress, recordId) ==
    IF ~ HasGrant(accessToken) THEN "Access token not found"
    ELSE IF accessGrants[accessToken].isRevoked THEN "Access has been revoked"
    ELSE IF accessGrants[accessToken].doctor # doctorAddress
         THEN "Doctor address mismatch"
    ELSE IF accessGrants[accessToken].recordId # recordId
         THEN "Record ID mismatch"
    ELSE IF accessGrants[accessToken].expiresAt < CurrentBlockHeight
         THEN "Access has expired"
    ELSE ""

\* the validation chain without the comparison of the doctor address
FailReason_AnyDoctor(accessToken, doctorAddress, recordId) ==
    IF ~ HasGrant(accessToken) THEN "Access token not found"
    ELSE IF accessGrants[accessToken].isRevoked THEN "Access has been revoked"
    ELSE IF accessGrants[accessToken].recordId # recordId
         THEN "Record ID mismatch"
    ELSE IF accessGrants[accessToken].expiresAt <= CurrentBlockHeight
         THEN "Access has expired"
    ELSE ""

\* the validation chain with the record id compared before the doctor
FailReason_RecordFirst(accessToken, doctorAddress, recordId) ==
    IF ~ HasGrant(accessToken) THEN "Access token not found"
    ELSE IF accessGrants[accessToken].isRevoked THEN "Access has been revoked"
    ELSE IF accessGrants[accessToken].recordId # recordId
         THEN "Record ID mismatch"
    ELSE IF accessGrants[accessToken].doctor # doctorAddress
         THEN "Doctor address mismatch"
    ELSE IF accessGrants[accessToken].expiresAt <= CurrentBlockHeight
         THEN "Access has expired"
    ELSE ""

\* failReason of the validation chain; "" when isValid
\* the validation chain that lets a token without a grant through
FailReason_MissingIsValid(accessToken, doctorAddress, recordId) ==
    IF ~ HasGrant(accessToken) THEN ""
    ELSE IF accessGrants[accessToken].isRevoked THEN "Access has been revoked"
    ELSE IF accessGrants[accessToken].doctor # doctorAddress
         THEN "Doctor address mismatch"
    ELSE IF accessGrants[accessToken].recordId # recordId
         THEN "Record ID mismatch"
    ELSE IF accessGrants[accessToken].expiresAt <= CurrentBlockHeight
         THEN "Access has expired"
    ELSE ""

FailReason(accessToken, doctorAddress, recordId) ==
    IF ~ HasGrant(accessToken) THEN "Access token not found"
    ELSE IF accessGrants[accessToken].isRevoked THEN "Access has been revoked"
    ELSE IF accessGrants[accessToken].doctor # doctorAddress
         THEN "Doctor address mismatch"
    ELSE IF accessGrants[accessToken].recordId # recordId
         THEN "Record ID mismatch"
    ELSE IF accessGrants[accessToken].expiresAt <= CurrentBlockHeight
         THEN "Access has expired"
    ELSE ""

\* whether the chain reaches the branch that calls getCurrentBlockHeight
ReadsBlockHeight(accessToken, doctorAddress, recordId) ==
    /\ HasGrant(accessToken)
    /\ ~ accessGrants[accessToken].isRevoked
    /\ accessGrants[accessToken].doctor = doctorAddress
    /\ accessGrants[accessToken].recordId = recordId

\* verifyAccess that uses the token up: a grant found valid is marked revoked
verifyAccess_ConsumesToken(accessToken, doctorAddress, recordId, txId) ==
    LET failReason == FailReason(accessToken, doctorAddress, recordId)
        isValid == (failReason = "")
        reads == ReadsBlockHeight(accessToken, doctorAddress, recordId)
    IN  /\ IF reads THEN getCurrentBlockHeight
           ELSE UNCHANGED << simulatedBlockHeight, blockHeightItem >>
        /\ storeTransaction(txId, "verify_access",
                            IF isValid THEN "confirmed" ELSE "failed")
        /\ lastResult' = Result("verify_access", accessToken, doctorAddress,
                                recordId, 0, TRUE, "", isValid,
                                failReason,
                                IF reads THEN CurrentBlockHeight ELSE NoBlock)
        /\ IF isValid THEN revokeAccessGrant(accessToken)
           ELSE UNCHANGED << accessGrants, accessTokens >>
        /\ UNCHANGED << wallBlock, demoAccount >>

verifyAccess(accessToken, doctorAddress, recordId, txId) ==
    LET failReason == FailReason(accessToken, doctorAddress, recordId)
        isValid == (failReason = "")
        reads == ReadsBlockHeight(accessToken, doctorAddress, recordId)
    IN  /\ IF reads THEN getCurrentBlockHeight
           ELSE UNCHANGED << simulatedBlockHeight, blockHeightItem >>
        /\ storeTransaction(txId, "verify_access",
                            IF isValid THEN "confirmed" ELSE "failed")
        /\ lastResult' = Result("verify_access", accessToken, doctorAddress,
                                recordId, 0, TRUE, "", isValid,
                                failReason,
                                IF reads THEN CurrentBlockHeight ELSE NoBlock)
        /\ UNCHANGED << wallBlock, accessGrants, accessTokens, demoAccount >>

\* ------------------------------------------------------------------------
\* SaludAleoClient.revokeAccess, demo mode
\* ------------------------------------------------------------------------
\* the result of a revokeAccess call, with the grant the handler read (the
\* handler looks the token up once it knows a client is connected)
RevokeResult(accessToken, success, error) ==
    [ Result("revoke_access", accessToken, NoAccount, <<>>, 0, success, error,
             FALSE, "", NoBlock)
      EXCEPT !.grant = IF demoAccount # NoAccount /\ HasGrant(accessToken)
                       THEN accessGrants[accessToken] ELSE NoGrant ]

\* revokeAccess that refuses a grant that is already revoked
revokeAccess_RejectsRevoked(accessToken, txId) ==
    LET fail(error) ==
            /\ lastResult' = RevokeResult(accessToken, FALSE, error)
            /\ UNCHANGED << wallBlock, simulatedBlockHeight, blockHeightItem,
                            accessGrants, accessTokens, transactions,
                            demoAccount >>
    IN  IF demoAccount = NoAccount THEN fail("Not connected")
        ELSE IF ~ HasGrant(accessToken) THEN fail("Access token not found")
        ELSE IF accessGrants[accessToken].patient # demoAccount
             THEN fail("Not authorized to revoke this access")
        ELSE IF accessGrants[accessToken].isRevoked
             THEN fail("Access already revoked")
        ELSE /\ revokeAccessGrant(accessToken)
             /\ storeTransaction(txId, "revoke_access", "confirmed")
             /\ lastResult' = RevokeResult(accessToken, TRUE, "")
             /\ UNCHANGED << wallBlock, simulatedBlockHeight, blockHeightItem,
                             demoAccount >>

\* revokeAccess without the comparison of grant.patient with the caller
revokeAccess_NoOwnerCheck(accessToken, txId) ==
    LET fail(error) ==
            /\ lastResult' = RevokeResult(accessToken, FALSE, error)
            /\ UNCHANGED << wallBlock, simulatedBlockHeight, blockHeightItem,
                            accessGrants, accessTokens, transactions,
                            demoAccount >>
    IN  IF demoAccount = NoAccount THEN fail("Not connected")
        ELSE IF ~ HasGrant(accessToken) THEN fail("Access token not found")
        ELSE /\ revokeAccessGrant(accessToken)
             /\ storeTransaction(txId, "revoke_access", "confirmed")
             /\ lastResult' = RevokeResult(accessToken, TRUE, "")
             /\ UNCHANGED << wallBlock, simulatedBlockHeight, blockHeightItem,
                             demoAccount >>

\* revokeAccess that reports success for a token it has no grant for
revokeAccess_IgnoresMissing(accessToken, txId) ==
    LET fail(error) ==
            /\ lastResult' = RevokeResult(accessToken, FALSE, error)
            /\ UNCHANGED << wallBlock, simulatedBlockHeight, blockHeightItem,
                            accessGrants, accessTokens, transactions,
                            demoAccount >>
    IN  IF demoAccount = NoAccount THEN fail("Not connected")
        ELSE IF HasGrant(accessToken)
                /\ accessGrants[accessToken].patient # demoAccount
             THEN fail("Not authorized to revoke this access")
        ELSE /\ revokeAccessGrant(accessToken)
             /\ storeTransaction(txId, "revoke_access", "confirmed")
             /\ lastResult' = RevokeResult(accessToken, TRUE, "")
             /\ UNCHANGED << wallBlock, simulatedBlockHeight, blockHeightItem,
                             demoAccount >>

revokeAccess(accessToken, txId) ==
    LET fail(error) ==
            /\ lastResult' = RevokeResult(accessToken, FALSE, error)
            /\ UNCHANGED << wallBlock, simulatedBlockHeight, blockHeightItem,
                            accessGrants, accessTokens, transactions,
                            demoAccount >>
    IN  IF demoAccount = NoAccount THEN fail("Not connected")
        ELSE IF ~ HasGrant(accessToken) THEN fail("Access token not found")
        ELSE IF accessGrants[accessToken].patient # demoAccount
             THEN fail("Not authorized to revoke this access")
        ELSE /\ revokeAccessGrant(accessToken)
             /\ storeTransaction(txId, "revoke_access", "confirmed")
             /\ lastResult' = RevokeResult(accessToken, TRUE, "")
             /\ UNCHANGED << wallBlock, simulatedBlockHeight, blockHeightItem,
                             demoAccount >>

\* ------------------------------------------------------------------------
\* The calls the user interface and its callers make
\* ------------------------------------------------------------------------
GrantAccess ==
    \E medicalRecord \in MedicalRecords, doctorAddress \in Addresses,
       durationBlocks \in Durations, nonce \in Nonces, txId \in TxIds :
        /\ Cardinality(DOMAIN accessGrants
                       \cup { computeAccessToken(medicalRecord.record_id,
                                                 doctorAddress, nonce) })
              <= MaxGrants
        /\ grantAccess(medicalRecord, doctorAddress, durationBlocks, nonce, txId)
        /\ UNCHANGED << calls, appGrants >>

VerifyAccess ==
    \E accessToken \in AllTokens, doctorAddress \in Addresses,
       recordId \in ClaimedRecordIds, txId \in TxIds :
        /\ verifyAccess(accessToken, doctorAddress, recordId, txId)
        /\ UNCHANGED << calls, appGrants >>

RevokeAccess ==
    \E accessToken \in AllTokens, txId \in TxIds :
        /\ revokeAccess(accessToken, txId)
        /\ UNCHANGED << calls, appGrants >>

ConnectAccount == \E a \in Addresses : Connect(a)

Next ==
    \/ Tick
    \/ Reload
    \/ ConnectAccount
    \/ Disconnect
    \/ GrantAccess
    \/ VerifyAccess
    \/ RevokeAccess
    \/ clearDemoData

Spec == Init /\ [][Next]_vars

\* ------------------------------------------------------------------------
\* Properties of the grant lifecycle
\* ------------------------------------------------------------------------
\* the validity window of a grant: not revoked, issued, not yet expired
ValidAt(g, t) == ~ g.isRevoked /\ t >= g.grantedAt /\ t < g.expiresAt

\* the stored grant the last call named
LastGrant == accessGrants[lastResult.accessToken]

\* the last call was a verification that presented the stored grantee and record
MatchingVerify ==
    /\ lastResult.op = "verify_access"
    /\ HasGrant(lastResult.accessToken)
    /\ LastGrant.doctor = lastResult.doctorAddress
    /\ LastGrant.recordId = lastResult.recordId

\* C1: at every block height the program can be at, a stored grant passes
\* verification with its own grantee and record id (and the quick validity
\* check) exactly when it is not revoked and the height lies in
\* [grantedAt, expiresAt); a verification call returns isValid accordingly.
C1_ValidExactlyInWindow ==
    /\ \A k \in DOMAIN accessGrants :
          LET g == accessGrants[k] IN
          /\ (FailReason(k, g.doctor, g.recordId) = "")
                <=> ValidAt(g, CurrentBlockHeight)
          /\ isAccessTokenValid(k) <=> ValidAt(g, CurrentBlockHeight)
    /\ MatchingVerify =>
          (lastResult.isValid <=> ValidAt(LastGrant, CurrentBlockHeight))

\* a matching verification answered Valid at a height after the issue height
C1_Witness ==
    /\ MatchingVerify
    /\ lastResult.isValid
    /\ lastResult.block > LastGrant.grantedAt
    /\ lastResult.block < LastGrant.expiresAt

\* C2: a matching verification of an unrevoked grant answers Valid at the
\* last block before expiresAt and "Access has expired" at expiresAt itself.
C2_ExpiryExclusive ==
    (MatchingVerify /\ ~ LastGrant.isRevoked) =>
        /\ (lastResult.block = LastGrant.expiresAt - 1) => lastResult.isValid
        /\ (lastResult.block = LastGrant.expiresAt) =>
               /\ ~ lastResult.isValid
               /\ lastResult.failReason = "Access has expired"

\* a grant of positive duration was verified at exactly expiresAt and refused
C2_Witness ==
    /\ MatchingVerify
    /\ ~ LastGrant.isRevoked
    /\ LastGrant.expiresAt > LastGrant.grantedAt
    /\ lastResult.block = LastGrant.expiresAt
    /\ lastResult.failReason = "Access has expired"

\* every verification of token k answers "Access has been revoked"
VerifiesRevoked(k) ==
    \A d \in Addresses, r \in ClaimedRecordIds :
        FailReason(k, d, r) = "Access has been revoked"

\* C3: once a token verifies as revoked it does so after every later step,
\* whatever the clock and whatever operation the step is.
C3_RevokedForever ==
    [][ \A k \in AllTokens : VerifiesRevoked(k) => VerifiesRevoked(k)' ]_vars

\* C4: a revoke call made by an account that is not the patient of the stored
\* grant (the doctor included) fails with the not-authorized error and leaves
\* the grant, its isRevoked flag in particular, as it was.
C4_UnauthorizedRevokeRejected ==
    [][ LET k == lastResult'.accessToken IN
        ( /\ lastResult'.op = "revoke_access"
          /\ HasGrant(k)
          /\ demoAccount # NoAccount
          /\ accessGrants[k].patient # demoAccount )
        => /\ ~ lastResult'.success
           /\ lastResult'.error = "Not authorized to revoke this access"
           /\ accessGrants' = accessGrants
           /\ accessTokens' = accessTokens
           /\ accessGrants'[k].isRevoked = accessGrants[k].isRevoked ]_vars

\* the doctor of an unrevoked grant called revoke and was refused
C4_Witness ==
    /\ lastResult.op = "revoke_access"
    /\ lastResult.error = "Not authorized to revoke this access"
    /\ HasGrant(lastResult.accessToken)
    /\ ~ LastGrant.isRevoked
    /\ demoAccount = LastGrant.doctor
    /\ demoAccount # LastGrant.patient

Clamp(x, lo, hi) == IF x < lo THEN lo ELSE IF x > hi THEN hi ELSE x

\* C5: a successful issue stores expiresAt - grantedAt equal to the requested
\* duration clamped to [MIN_ACCESS_DURATION_BLOCKS, MAX_ACCESS_DURATION_BLOCKS].
C5_DurationClamped ==
    (lastResult.op = "grant_access" /\ lastResult.success) =>
        LastGrant.expiresAt - LastGrant.grantedAt
            = Clamp(lastResult.durationBlocks, MIN_ACCESS_DURATION_BLOCKS,
                    MAX_ACCESS_DURATION_BLOCKS)

\* C6: every stored grant expires strictly after it was issued.
C6_ExpiresAfterIssue ==
    \A k \in DOMAIN accessGrants :
        accessGrants[k].expiresAt > accessGrants[k].grantedAt

\* C7: the isRevoked flag of a stored grant never goes from true to false.
C7_RevokedMonotonic ==
    [][ \A k \in DOMAIN accessGrants :
            accessGrants[k].isRevoked =>
                (k \in DOMAIN accessGrants' /\ accessGrants'[k].isRevoked) ]_vars

\* C8: no step changes the token, patient, doctor, record id, grantedAt or
\* expiresAt of a grant that is already stored.
C8_GrantFieldsImmutable ==
    [][ \A k \in DOMAIN accessGrants :
            /\ k \in DOMAIN accessGrants'
            /\ accessGrants'[k].accessToken = accessGrants[k].accessToken
            /\ accessGrants'[k].patient = accessGrants[k].patient
            /\ accessGrants'[k].doctor = accessGrants[k].doctor
            /\ accessGrants'[k].recordId = accessGrants[k].recordId
            /\ accessGrants'[k].grantedAt = accessGrants[k].grantedAt
            /\ accessGrants'[k].expiresAt = accessGrants[k].expiresAt ]_vars

\* C9: an issue whose derived token already has a stored grant fails and
\* leaves the stored grants as they were.
C9_TokenWriteOnce ==
    [][ ( /\ lastResult'.op = "grant_access"
          /\ HasGrant(lastResult'.accessToken) )
        => /\ ~ lastResult'.success
           /\ accessGrants' = accessGrants ]_vars

\* C10: an issue whose doctor address is the caller's own address fails, and
\* no stored grant has its patient as its doctor.
C10_SelfGrantRejected ==
    /\ ( /\ lastResult.op = "grant_access"
         /\ demoAccount # NoAccount
         /\ lastResult.doctorAddress = demoAccount )
       => ~ lastResult.success
    /\ \A k \in DOMAIN accessGrants :
          accessGrants[k].doctor # accessGrants[k].patient

\* C11: a successful issue was made by the owner of the record passed to it,
\* and an issue by anybody else fails and leaves the stored grants alone.
C11_OnlyOwnerIssues ==
    [][ ( /\ lastResult'.op = "grant_access"
          /\ demoAccount # NoAccount
          /\ lastResult'.recordOwner # demoAccount )
        => /\ ~ lastResult'.success
           /\ accessGrants' = accessGrants ]_vars

\* the last call was a verification of a token that has a stored grant
StoredVerify ==
    lastResult.op = "verify_access" /\ HasGrant(lastResult.accessToken)

\* the first denial in the order record id, doctor, revoked, expired
RecordFirstDenial(g, doctorAddress, recordId, t) ==
    IF g.recordId # recordId THEN "Record ID mismatch"
    ELSE IF g.doctor # doctorAddress THEN "Doctor address mismatch"
    ELSE IF g.isRevoked THEN "Access has been revoked"
    ELSE IF g.expiresAt <= t THEN "Access has expired"
    ELSE ""

\* C12 as stated: a verification of a stored token reports the first denial
\* in the order record mismatch, doctor mismatch, revoked, expired.
C12_RecordFirstPrecedence ==
    StoredVerify =>
        lastResult.failReason
            = RecordFirstDenial(LastGrant, lastResult.doctorAddress,
                                lastResult.recordId, CurrentBlockHeight)

\* C12 amended: a verification of a stored token reports the first denial in
\* the order revoked, doctor mismatch, record mismatch, expired; a wrong
\* record id together with a wrong doctor is a doctor mismatch.
C12_RevokedDoctorRecordExpired ==
    StoredVerify =>
        LET g == LastGrant
            wrongDoctor == g.doctor # lastResult.doctorAddress
            wrongRecord == g.recordId # lastResult.recordId
            expired == g.expiresAt <= CurrentBlockHeight
            reason == lastResult.failReason
        IN  /\ g.isRevoked => reason = "Access has been revoked"
            /\ (~ g.isRevoked /\ wrongDoctor)
                   => reason = "Doctor address mismatch"
            /\ (~ g.isRevoked /\ ~ wrongDoctor /\ wrongRecord)
                   => reason = "Record ID mismatch"
            /\ (~ g.isRevoked /\ ~ wrongDoctor /\ ~ wrongRecord /\ expired)
                   => reason = "Access has expired"
            /\ lastResult.isValid
                   <=> ~ (g.isRevoked \/ wrongDoctor \/ wrongRecord \/ expired)

\* an unrevoked grant was verified with a wrong record id and a wrong doctor
C12_Witness ==
    /\ StoredVerify
    /\ ~ LastGrant.isRevoked
    /\ LastGrant.recordId # lastResult.recordId
    /\ LastGrant.doctor # lastResult.doctorAddress
    /\ lastResult.failReason = "Doctor address mismatch"

\* the grant of the last call is neither revoked nor expired
LastGrantInWindow ==
    ~ LastGrant.isRevoked /\ LastGrant.expiresAt > CurrentBlockHeight

\* C13: for an unrevoked, unexpired grant, the right token and record id with
\* a doctor address other than the grant's is a doctor mismatch, never valid;
\* no address but the grant's doctor passes the validation chain.
C13_OtherDoctorRefused ==
    /\ ( /\ StoredVerify
          /\ LastGrantInWindow
          /\ LastGrant.recordId = lastResult.recordId
          /\ LastGrant.doctor # lastResult.doctorAddress )
       => /\ ~ lastResult.isValid
          /\ lastResult.failReason = "Doctor address mismatch"
    /\ \A k \in DOMAIN accessGrants : \A d \in Addresses \ { accessGrants[k].doctor } :
          FailReason(k, d, accessGrants[k].recordId) # ""

\* a grant in its window was verified with its record id by another doctor
C13_Witness ==
    /\ StoredVerify
    /\ LastGrantInWindow
    /\ LastGrant.recordId = lastResult.recordId
    /\ LastGrant.doctor # lastResult.doctorAddress
    /\ lastResult.failReason = "Doctor address mismatch"

\* ------------------------------------------------------------------------
\* ShareRecordModal (frontend): the share dialog in front of grantAccess
\* ------------------------------------------------------------------------
\* "aleo1"
AleoPrefix == << 97, 108, 101, 111, 49 >>
\* "aleo1qqqqqqqqqqqqqqqqqqqqqqqqqqqqqqqqqqqqqqqqqqqqqqqqqqqq3ljyzc"
PlaceholderDoctor ==
    <<
       97, 108, 101, 111, 49, 113, 113, 113, 113, 113, 113, 113,
       113, 113, 113, 113, 113, 113, 113, 113, 113, 113, 113, 113,
       113, 113, 113, 113, 113, 113, 113, 113, 113, 113, 113, 113,
       113, 113, 113, 113, 113, 113, 113, 113, 113, 113, 113, 113,
       113, 113, 113, 113, 113, 113, 113, 113, 113, 51, 108, 106,
       121, 122, 99 >>
\* the doctor address field: left empty, "aleo1d", or the malformed "d"
DoctorInputs == { <<>>, AleoPrefix \o <<100>>, <<100>> }
\* addresses a doctor may present with a scanned token
ScanningDoctors == { AleoPrefix \o <<100>>, PlaceholderDoctor }
\* the options of the duration select: one hour, 24 hours (the default)
ShareDurations == { MIN_ACCESS_DURATION_BLOCKS, 5760 }

startsWith(s, prefix) ==
    /\ Len(s) >= Len(prefix)
    /\ SubSeq(s, 1, Len(prefix)) = prefix

\* doctorAddress || placeholder
TargetDoctor(doctorAddress) ==
    IF doctorAddress # <<>> THEN doctorAddress ELSE PlaceholderDoctor

ShareTokens ==
    { computeAccessToken(r, TargetDoctor(d), n) :
        r \in RecordIds, d \in DoctorInputs, n \in Nonces }

\* handleGenerate: validates the field, then has the connected client grant
\* access to the target doctor
handleGenerate(sharedRecordId, doctorField, durationBlocks, nonce, txId) ==
    IF doctorField # <<>> /\ ~ startsWith(doctorField, AleoPrefix)
    THEN /\ lastResult' = Result("grant_access", NoToken, doctorField, sharedRecordId,
                                 durationBlocks, FALSE,
                                 "Invalid Aleo address format", FALSE, "",
                                 NoBlock)
         /\ UNCHANGED << wallBlock, simulatedBlockHeight, blockHeightItem,
                         accessGrants, accessTokens, transactions, demoAccount >>
    ELSE grantAccess([ record_id |-> sharedRecordId, owner |-> demoAccount ],
                     TargetDoctor(doctorField), durationBlocks, nonce, txId)

HandleGenerate ==
    \E sharedRecordId \in RecordIds, doctorAddress \in DoctorInputs,
       durationBlocks \in ShareDurations, nonce \in Nonces, txId \in TxIds :
        /\ demoAccount # NoAccount
        /\ handleGenerate(sharedRecordId, doctorAddress, durationBlocks, nonce,
                          txId)
        /\ UNCHANGED << calls, appGrants >>

\* a doctor presents a shared token with an address of their own
ScanVerify ==
    \E accessToken \in ShareTokens, doctorAddress \in ScanningDoctors,
       recordId \in ClaimedRecordIds, txId \in TxIds :
        /\ verifyAccess(accessToken, doctorAddress, recordId, txId)
        /\ UNCHANGED << calls, appGrants >>

ShareRevoke ==
    \E accessToken \in ShareTokens, txId \in TxIds :
        /\ revokeAccess(accessToken, txId)
        /\ UNCHANGED << calls, appGrants >>

ShareNext ==
    \/ Tick
    \/ ConnectAccount
    \/ HandleGenerate
    \/ ScanVerify
    \/ ShareRevoke

ShareSpec == Init /\ [][ShareNext]_vars

\* C14: a grant made with the doctor field left empty verifies as valid for
\* every doctor address presented, given the right record id and a grant that
\* is neither revoked nor expired.
C14_AnyDoctorVerifies ==
    ( /\ StoredVerify
      /\ LastGrant.doctor = PlaceholderDoctor
      /\ LastGrantInWindow
      /\ LastGrant.recordId = lastResult.recordId )
    => lastResult.isValid

\* what localStorage holds
Persisted == << blockHeightItem, accessGrants, accessTokens, transactions >>

\* C15 as stated: a verification leaves every persisted item as it was.
C15_VerifyWritesNothing ==
    [][ lastResult'.op = "verify_access" => Persisted' = Persisted ]_vars

\* C15 amended: a verification leaves the stored grants and the token index
\* as they were, whatever its outcome; it stores a verify_access transaction
\* with that outcome, and the same arguments get the same answer again at the
\* same block height.
C15_VerifyKeepsGrants ==
    [][ lastResult'.op = "verify_access" =>
          /\ accessGrants' = accessGrants
          /\ accessTokens' = accessTokens
          /\ \E id \in DOMAIN transactions' :
                transactions'[id] =
                    [ type |-> "verify_access",
                      status |-> IF lastResult'.isValid THEN "confirmed"
                                 ELSE "failed" ]
          /\ FailReason(lastResult.accessToken, lastResult.doctorAddress,
                        lastResult.recordId)' = lastResult'.failReason ]_vars

\* a verification found a grant valid and stored its transaction
C15_Witness ==
    /\ StoredVerify
    /\ lastResult.isValid
    /\ \E id \in DOMAIN transactions :
          transactions[id] = [ type |-> "verify_access", status |-> "confirmed" ]
    /\ ~ LastGrant.isRevoked

\* the last call was a revocation by the patient of the grant it read
OwnerRevoke ==
    /\ lastResult.op = "revoke_access"
    /\ lastResult.grant # NoGrant
    /\ lastResult.grant.patient = demoAccount

\* C16: a revocation by the patient of a grant that is already revoked
\* succeeds again and leaves the stored grant exactly as it found it.
C16_RevokeIdempotent ==
    (OwnerRevoke /\ lastResult.grant.isRevoked) =>
        /\ lastResult.success
        /\ HasGrant(lastResult.accessToken)
        /\ LastGrant = lastResult.grant
        /\ accessTokens[lastResult.accessToken] = FALSE

\* the patient revoked a grant that was already revoked
C16_Witness ==
    /\ OwnerRevoke
    /\ lastResult.grant.isRevoked
    /\ lastResult.success
    /\ LastGrant.isRevoked

\* the stored grant of token k has run out and was not revoked
ExpiredUnrevoked(k) ==
    /\ ~ accessGrants[k].isRevoked
    /\ accessGrants[k].expiresAt <= CurrentBlockHeight

\* C17: the patient can still revoke an expired, unrevoked grant (the call
\* succeeds and sets the revoked flag), and a step changes such a grant only
\* by that revocation.
C17_ExpiredAcceptsOnlyRevoke ==
    [][ \A k \in DOMAIN accessGrants :
          ExpiredUnrevoked(k) =>
            /\ ( /\ lastResult'.op = "revoke_access"
                 /\ lastResult'.accessToken = k
                 /\ demoAccount = accessGrants[k].patient )
               => ( lastResult'.success /\ accessGrants'[k].isRevoked )
            /\ ( k \notin DOMAIN accessGrants' \/ accessGrants'[k] # accessGrants[k] )
               => ( /\ lastResult'.op = "revoke_access"
                    /\ k \in DOMAIN accessGrants'
                    /\ accessGrants'[k] = [ accessGrants[k] EXCEPT !.isRevoked = TRUE ] )
      ]_vars

\* the tokens that getAccessInfo finds a grant for
Queryable == { k \in AllTokens : getAccessInfo(k).exists }

\* C18: no operation removes a grant: a token that getAccessInfo finds a
\* grant for is found in every later state.
C18_NeverDestroyed ==
    [][ \A k \in Queryable : getAccessInfo(k).exists' ]_vars

\* C18 (amended): every operation except the reset of the demo data keeps
\* each stored grant queryable, also once it is revoked or has expired.
C18_OnlyResetDestroys ==
    [][ lastResult'.op # "clear_demo_data" =>
          \A k \in Queryable : getAccessInfo(k).exists' ]_vars

\* getAccessInfo still finds a grant that is both revoked and expired
C18_Witness ==
    /\ lastResult.op = "verify_access"
    /\ getAccessInfo(lastResult.accessToken).exists
    /\ getAccessInfo(lastResult.accessToken).grant.isRevoked
    /\ getAccessInfo(lastResult.accessToken).grant.expiresAt <= CurrentBlockHeight
    /\ getAccessInfo(lastResult.accessToken).grant.grantedAt < CurrentBlockHeight

\* ------------------------------------------------------------------------
\* Calls that overlap: grantAccess and revokeAccess are async functions, and
\* other calls and events run while one of them waits in this.sleep. Each
\* step below is the code between two awaits; pc names the await the call is
\* suspended at.
\* ------------------------------------------------------------------------
AsyncDoctors == { <<49, 100>> }

AsyncDurations == { 1, MIN_ACCESS_DURATION_BLOCKS }

AsyncTokens ==
    { computeAccessToken(r, d, n) :
        r \in RecordIds, d \in AsyncDoctors, n \in Nonces }

\* the calls that were started and have not returned
InFlight(c) == calls[c].pc \notin { "idle", "done" }

\* a call is started: it remembers the calls that are suspended at that moment
Started(c, pc, input, result) ==
    [ pc |-> pc, input |-> input, grant |-> NoGrant,
      peers |-> { d \in Calls \ {c} : InFlight(d) }, result |-> result ]

\* what a catch block returns for the TypeError of this.demoAccount.address
\* when the client was disconnected during a sleep
NullAccountError == "Cannot read properties of null"

\* grantAccess up to its first await
grantAccess_begin(c, medicalRecord, doctorAddress, durationBlocks, nonce) ==
    LET input == [ medicalRecord |-> medicalRecord,
                   doctorAddress |-> doctorAddress,
                   durationBlocks |-> durationBlocks, nonce |-> nonce ]
    IN  /\ calls[c].pc = "idle"
        /\ calls' = [ calls EXCEPT ![c] =
              IF demoAccount = NoAccount
              THEN Started(c, "done", input,
                           GrantResult(medicalRecord, NoToken, doctorAddress,
                                       durationBlocks, FALSE, "Not connected",
                                       NoBlock))
              ELSE Started(c, "grant_broadcasting", input, NoResult) ]
        /\ UNCHANGED << wallBlock, simulatedBlockHeight, blockHeightItem,
                        accessGrants, accessTokens, transactions, demoAccount >>
        /\ lastResult' = NoResult
        /\ UNCHANGED appGrants

\* grantAccess from the end of sleep(1000) to the await of sleep(1500): the
\* block height is read, the token derived, the grant and the transaction
\* stored (sleep(500) and sleep(1000) have only a status callback in between)
grantAccess_commit(c, txId) ==
    LET input == calls[c].input
        currentBlock == CurrentBlockHeight
        record_id == input.medicalRecord.record_id
        accessToken == computeAccessToken(record_id, input.doctorAddress,
                                          input.nonce)
        grant == DemoAccessGrant(accessToken, demoAccount, input.doctorAddress,
                                 record_id, currentBlock,
                                 currentBlock + input.durationBlocks)
    IN  /\ calls[c].pc = "grant_broadcasting"
        /\ getCurrentBlockHeight
        /\ IF demoAccount = NoAccount
           THEN /\ calls' = [ calls EXCEPT ![c].pc = "done", ![c].result =
                     GrantResult(input.medicalRecord, NoToken,
                                 input.doctorAddress, input.durationBlocks,
                                 FALSE, NullAccountError, NoBlock) ]
                /\ UNCHANGED << accessGrants, accessTokens, transactions >>
           ELSE /\ storeAccessGrant(grant)
                /\ storeTransaction(txId, "grant_access", "confirmed")
                /\ calls' = [ calls EXCEPT ![c].pc = "grant_confirming",
                     ![c].grant = grant, ![c].result =
                     GrantResult(input.medicalRecord, accessToken,
                                 input.doctorAddress, input.durationBlocks,
                                 TRUE, "", currentBlock) ]
        /\ UNCHANGED << wallBlock, demoAccount >>
        /\ lastResult' = NoResult
        /\ UNCHANGED appGrants

\* revokeAccess up to its first await
revokeAccess_begin(c, accessToken) ==
    LET input == [ accessToken |-> accessToken ]
        fail == Result("revoke_access", accessToken, NoAccount, <<>>, 0, FALSE,
                       "Not connected", FALSE, "", NoBlock)
    IN  /\ calls[c].pc = "idle"
        /\ calls' = [ calls EXCEPT ![c] =
              IF demoAccount = NoAccount THEN Started(c, "done", input, fail)
              ELSE Started(c, "revoke_preparing", input, NoResult) ]
        /\ UNCHANGED << wallBlock, simulatedBlockHeight, blockHeightItem,
                        accessGrants, accessTokens, transactions, demoAccount >>
        /\ lastResult' = NoResult
        /\ UNCHANGED appGrants

\* revokeAccess from the end of sleep(500) to the await of sleep(1000): the
\* grant is looked up and its patient compared with the connected account
revokeAccess_check(c) ==
    LET accessToken == calls[c].input.accessToken
        fail(error) ==
            calls' = [ calls EXCEPT ![c].pc = "done", ![c].result =
                Result("revoke_access", accessToken, NoAccount, <<>>, 0, FALSE,
                       error, FALSE, "", NoBlock) ]
    IN  /\ calls[c].pc = "revoke_preparing"
        /\ IF ~ HasGrant(accessToken) THEN fail("Access token not found")
           ELSE IF demoAccount = NoAccount THEN fail(NullAccountError)
           ELSE IF accessGrants[accessToken].patient # demoAccount
                THEN fail("Not authorized to revoke this access")
           ELSE calls' = [ calls EXCEPT ![c].pc = "revoke_broadcasting",
                                        ![c].grant = accessGrants[accessToken] ]
        /\ UNCHANGED << wallBlock, simulatedBlockHeight, blockHeightItem,
                        accessGrants, accessTokens, transactions, demoAccount >>
        /\ lastResult' = NoResult
        /\ UNCHANGED appGrants

\* the commit of revokeAccess that refuses a grant another call has revoked
revokeAccess_commit_RejectsRevoked(c, txId) ==
    LET accessToken == calls[c].input.accessToken
        revoked == HasGrant(accessToken) /\ accessGrants[accessToken].isRevoked
    IN  /\ calls[c].pc = "revoke_broadcasting"
        /\ IF revoked
           THEN UNCHANGED << accessGrants, accessTokens, transactions >>
           ELSE /\ revokeAccessGrant(accessToken)
                /\ storeTransaction(txId, "revoke_access", "confirmed")
        /\ calls' = [ calls EXCEPT ![c].pc = "revoke_confirming", ![c].result =
              Result("revoke_access", accessToken, NoAccount, <<>>, 0,
                     ~ revoked, IF revoked THEN "Access already revoked" ELSE "",
                     FALSE, "", NoBlock) ]
        /\ UNCHANGED << wallBlock, simulatedBlockHeight, blockHeightItem,
                        demoAccount >>
        /\ lastResult' = NoResult
        /\ UNCHANGED appGrants

\* revokeAccess from the end of sleep(1000) to the await of the last sleep:
\* the grant is revoked in the store and the transaction recorded
revokeAccess_commit(c, txId) ==
    LET accessToken == calls[c].input.accessToken
    IN  /\ calls[c].pc = "revoke_broadcasting"
        /\ revokeAccessGrant(accessToken)
        /\ storeTransaction(txId, "revoke_access", "confirmed")
        /\ calls' = [ calls EXCEPT ![c].pc = "revoke_confirming", ![c].result =
              Result("revoke_access", accessToken, NoAccount, <<>>, 0, TRUE, "",
                     FALSE, "", NoBlock) ]
        /\ UNCHANGED << wallBlock, simulatedBlockHeight, blockHeightItem,
                        demoAccount >>
        /\ lastResult' = NoResult
        /\ UNCHANGED appGrants

\* the last sleep of either call ends and the caller receives the result
Return(c) ==
    /\ calls[c].pc \in { "grant_confirming", "revoke_confirming" }
    /\ calls' = [ calls EXCEPT ![c].pc = "done" ]
    /\ UNCHANGED << wallBlock, simulatedBlockHeight, blockHeightItem,
                    accessGrants, accessTokens, transactions, demoAccount >>
    /\ lastResult' = NoResult
    /\ UNCHANGED appGrants

\* the caller drops the result; the slot can hold a later call
Forget(c) ==
    /\ calls[c].pc = "done"
    /\ calls' = [ d \in Calls |->
                    IF d = c THEN IdleCall
                    ELSE [ calls[d] EXCEPT !.peers = @ \ {c} ] ]
    /\ UNCHANGED << wallBlock, simulatedBlockHeight, blockHeightItem,
                    accessGrants, accessTokens, transactions, demoAccount >>
    /\ lastResult' = NoResult
    /\ UNCHANGED appGrants

BeginGrant ==
    \E c \in Calls, record_id \in RecordIds, doctorAddress \in AsyncDoctors,
       durationBlocks \in AsyncDurations, nonce \in Nonces :
        grantAccess_begin(c, [ record_id |-> record_id, owner |-> demoAccount ],
                          doctorAddress, durationBlocks, nonce)

CommitGrant == \E c \in Calls, txId \in TxIds : grantAccess_commit(c, txId)

BeginRevoke ==
    \E c \in Calls, accessToken \in AsyncTokens :
        revokeAccess_begin(c, accessToken)

CheckRevoke == \E c \in Calls : revokeAccess_check(c)

CommitRevoke == \E c \in Calls, txId \in TxIds : revokeAccess_commit(c, txId)

ReturnCall == \E c \in Calls : Return(c)

ForgetCall == \E c \in Calls : Forget(c)

AsyncNext ==
    \/ Tick
    \/ ConnectAccount
    \/ Disconnect
    \/ BeginGrant
    \/ CommitGrant
    \/ BeginRevoke
    \/ CheckRevoke
    \/ CommitRevoke
    \/ ReturnCall
    \/ ForgetCall

AsyncSpec == Init /\ [][AsyncNext]_vars

\* two calls of which one was started while the other was suspended
Concurrent(c, d) == c # d /\ (d \in calls[c].peers \/ c \in calls[d].peers)

\* call c is an issue that has stored its grant
IssueCommitted(c) ==
    /\ calls[c].pc \in { "grant_confirming", "done" }
    /\ calls[c].result.op = "grant_access"
    /\ calls[c].result.accessToken # NoToken

\* C19: of two overlapping issue calls that derive the same token exactly one
\* succeeds, the other one gets TokenCollision, and the stored grant is the
\* one the successful call wrote.
C19_ExactlyOneIssueWins ==
    \A c, d \in Calls :
        ( /\ Concurrent(c, d)
          /\ IssueCommitted(c) /\ IssueCommitted(d)
          /\ calls[c].result.accessToken = calls[d].result.accessToken )
        => \E w \in { c, d } : \E l \in { c, d } \ { w } :
              /\ calls[w].result.success
              /\ ~ calls[l].result.success
              /\ calls[l].result.error = "TokenCollision"
              /\ HasGrant(calls[w].result.accessToken)
                    => [ accessGrants[calls[w].result.accessToken]
                           EXCEPT !.isRevoked = FALSE ] = calls[w].grant

\* call c is a revocation that found the grant and passed the patient test
OwnerRevokeCall(c) ==
    /\ calls[c].pc \in { "revoke_broadcasting", "revoke_confirming", "done" }
    /\ calls[c].input = [ accessToken |-> calls[c].grant.accessToken ]

\* C20: each of several overlapping revocations by the patient writes the
\* revoked flag of the stored grant and nothing else, and each of them
\* returns success.
C20_ConcurrentRevokesSucceed ==
    [][ \A c \in Calls :
          /\ ( calls[c].pc = "revoke_broadcasting" /\ calls'[c].pc # "revoke_broadcasting" )
             => LET k == calls[c].input.accessToken
                IN  /\ calls'[c].result.success
                    /\ accessGrants' =
                          IF HasGrant(k)
                          THEN [ accessGrants EXCEPT ![k].isRevoked = TRUE ]
                          ELSE accessGrants
          /\ ( OwnerRevokeCall(c)' /\ calls'[c].pc = "done" )
             => calls'[c].result.success
      ]_vars

\* two overlapping revocations by the patient have both returned success,
\* the second one having found the grant already revoked
C20_Witness ==
    \E c, d \in Calls :
        /\ Concurrent(c, d)
        /\ OwnerRevokeCall(c) /\ OwnerRevokeCall(d)
        /\ calls[c].pc = "done" /\ calls[d].pc = "done"
        /\ calls[c].result.success /\ calls[d].result.success
        /\ ~ calls[c].grant.isRevoked /\ ~ calls[d].grant.isRevoked
        /\ HasGrant(calls[c].input.accessToken)
        /\ accessGrants[calls[c].input.accessToken].isRevoked

\* ------------------------------------------------------------------------
\* Overlapping calls on two tokens of one store
\* ------------------------------------------------------------------------
KeyDurations == { MIN_ACCESS_DURATION_BLOCKS }

KeyBeginGrant ==
    \E c \in Calls, record_id \in RecordIds, doctorAddress \in Addresses,
       durationBlocks \in KeyDurations, nonce \in Nonces :
        grantAccess_begin(c, [ record_id |-> record_id, owner |-> demoAccount ],
                          doctorAddress, durationBlocks, nonce)

KeyBeginRevoke ==
    \E c \in Calls, accessToken \in AllTokens :
        revokeAccess_begin(c, accessToken)

\* a verification, of which only the block between its sleeps touches the store
KeyVerify ==
    \E accessToken \in AllTokens, doctorAddress \in AsyncDoctors,
       recordId \in RecordIds, txId \in TxIds :
        /\ verifyAccess(accessToken, doctorAddress, recordId, txId)
        /\ UNCHANGED << calls, appGrants >>

KeyNext ==
    \/ ConnectAccount
    \/ KeyBeginGrant
    \/ CommitGrant
    \/ KeyBeginRevoke
    \/ CheckRevoke
    \/ CommitRevoke
    \/ ReturnCall
    \/ ForgetCall
    \/ KeyVerify

KeySpec == Init /\ [][KeyNext]_vars

\* the token a suspended call is about
TokenOf(c) ==
    IF calls[c].pc \in { "revoke_preparing", "revoke_broadcasting" }
    THEN calls[c].input.accessToken
    ELSE computeAccessToken(calls[c].input.medicalRecord.record_id,
                            calls[c].input.doctorAddress, calls[c].input.nonce)

\* call c stores its grant or its revocation in this step
Commits(c) ==
    /\ calls[c].pc \in { "grant_broadcasting", "revoke_broadcasting" }
    /\ calls'[c].pc # calls[c].pc

\* C21: the write of an issue or a revocation leaves the grant and the token
\* entry of every other token as they were, also while calls on other tokens
\* are suspended, and a verification answers from what is stored for its
\* token: not found exactly when no grant is stored, revoked exactly when
\* the stored grant is revoked.
C21_PerTokenWrites ==
    [][ /\ \A c \in Calls : Commits(c) =>
              \A j \in DOMAIN accessGrants \ { TokenOf(c) } :
                 /\ j \in DOMAIN accessGrants'
                 /\ accessGrants'[j] = accessGrants[j]
                 /\ accessTokens'[j] = accessTokens[j]
        /\ lastResult'.op = "verify_access" =>
              /\ (lastResult'.failReason = "Access token not found")
                    <=> lastResult'.accessToken \notin DOMAIN accessGrants'
              /\ (lastResult'.failReason = "Access has been revoked")
                    <=> ( /\ lastResult'.accessToken \in DOMAIN accessGrants'
                          /\ accessGrants'[lastResult'.accessToken].isRevoked )
      ]_vars

\* a revocation and an issue on two tokens overlapped and both returned; the
\* verification of the revoked token says revoked, the other grant stands
C21_Witness ==
    \E c, d \in Calls :
        /\ Concurrent(c, d)
        /\ calls[c].pc = "done" /\ calls[d].pc = "done"
        /\ calls[c].result.op = "revoke_access" /\ calls[c].result.success
        /\ calls[d].result.op = "grant_access" /\ calls[d].result.success
        /\ calls[d].result.accessToken # calls[c].result.accessToken
        /\ lastResult.op = "verify_access"
        /\ lastResult.accessToken = calls[c].result.accessToken
        /\ lastResult.failReason = "Access has been revoked"
        /\ HasGrant(calls[d].result.accessToken)
        /\ ~ accessGrants[calls[d].result.accessToken].isRevoked

\* ------------------------------------------------------------------------
\* Token derivation as a function of its three inputs
\* ------------------------------------------------------------------------
DeriveNonces == { <<110>>, <<110, 110>> }

\* String.prototype.substring(from, to) for 0 <= from <= to
substring(s, from, to) ==
    SubSeq(s, from + 1, IF to > Len(s) THEN Len(s) ELSE to)

\* 'token_'
TokenPrefix == << 116, 111, 107, 101, 110, 95 >>

\* SaludAleoClient.computeAccessToken, used when the grant is made on chain
clientComputeAccessToken(recordId, doctor, nonce) ==
    TokenPrefix \o substring(recordId, 0, 10) \o <<95>>
        \o substring(doctor, 5, 15) \o <<95>> \o substring(nonce, 0, 10)

\* a slot that holds the inputs and the token of one derivation
Derived(op, recordId, doctor, nonce, token) ==
    [ IdleCall EXCEPT
        !.pc = "derived",
        !.input = [ recordId |-> recordId, doctor |-> doctor, nonce |-> nonce ],
        !.result = [ NoResult EXCEPT !.op = op, !.accessToken = token ] ]

DeriveDemo ==
    \E c \in Calls, recordId \in ClaimedRecordIds, doctor \in Addresses,
       nonce \in DeriveNonces :
        /\ calls' = [ calls EXCEPT ![c] =
              Derived("demo_token", recordId, doctor, nonce,
                      computeAccessToken(recordId, doctor, nonce)) ]
        /\ UNCHANGED << wallBlock, simulatedBlockHeight, blockHeightItem,
                        accessGrants, accessTokens, transactions, demoAccount,
                        lastResult, appGrants >>

DeriveClient ==
    \E c \in Calls, recordId \in ClaimedRecordIds, doctor \in Addresses,
       nonce \in DeriveNonces :
        /\ calls' = [ calls EXCEPT ![c] =
              Derived("client_token", recordId, doctor, nonce,
                      clientComputeAccessToken(recordId, doctor, nonce)) ]
        /\ UNCHANGED << wallBlock, simulatedBlockHeight, blockHeightItem,
                        accessGrants, accessTokens, transactions, demoAccount,
                        lastResult, appGrants >>

DeriveNext ==
    \/ DeriveDemo
    \/ DeriveClient

DeriveSpec == Init /\ [][DeriveNext]_vars

\* C22: two derivations by the same function from triples that differ in a
\* component give different tokens.
C22_InputSensitive ==
    \A c, d \in Calls :
        ( /\ calls[c].pc = "derived" /\ calls[d].pc = "derived"
          /\ calls[c].result.op = calls[d].result.op
          /\ calls[c].input # calls[d].input )
        => calls[c].result.accessToken # calls[d].result.accessToken

\* ------------------------------------------------------------------------
\* What the share dialog shows after handleGenerate succeeded
\* ------------------------------------------------------------------------
\* milliseconds in one step of Math.floor(Date.now() / 15000)
BlockMillis == 15000

\* Date.now(), at the granularity of the block clock
DateNow == wallBlock * BlockMillis

\* handleGenerate has just granted access
Generated == lastResult.op = "grant_access" /\ lastResult.success

\* const token = `${aleoRecord.record_id}_${targetDoctor}_${Date.now()}`
ModalAccessToken ==
    lastResult.recordId \o <<95>> \o lastResult.doctorAddress \o <<95>>
        \o NumberToString(DateNow)

\* const expires = new Date(Date.now() + durationBlocks * 1000)
ModalExpiresAt == DateNow + lastResult.durationBlocks * 1000

\* C23: the token handed to the sharer at issuance is the token derived from
\* (record id, doctor, nonce) alone, the key under which the grant was stored.
C23_IssuedTokenIsTheKey ==
    Generated =>
        /\ ModalAccessToken = lastResult.accessToken
        /\ HasGrant(ModalAccessToken)

C25_UnknownTokenNotFound ==
    ( lastResult.op = "verify_access" /\ ~ HasGrant(lastResult.accessToken) )
        => ( /\ ~ lastResult.isValid
             /\ lastResult.failReason = "Access token not found" )

\* an unknown token was verified after the clock had advanced, with another
\* token's grant in the store
C25_Witness ==
    /\ lastResult.op = "verify_access"
    /\ ~ HasGrant(lastResult.accessToken)
    /\ lastResult.failReason = "Access token not found"
    /\ accessGrants # EmptyMap
    /\ CurrentBlockHeight > StartBlock

\* C26: the revocation, by a connected client, of a token that has no grant
\* fails with not found and leaves grants and token entries as they were.
C26_RevokeUnknownFails ==
    [][ ( /\ lastResult'.op = "revoke_access"
          /\ demoAccount # NoAccount
          /\ ~ HasGrant(lastResult'.accessToken) )
        => ( /\ ~ lastResult'.success
             /\ lastResult'.error = "Access token not found"
             /\ accessGrants' = accessGrants
             /\ accessTokens' = accessTokens )
      ]_vars

\* a connected client asked to revoke an unknown token while the store held
\* the grant of another token
C26_Witness ==
    /\ lastResult.op = "revoke_access"
    /\ demoAccount # NoAccount
    /\ ~ HasGrant(lastResult.accessToken)
    /\ lastResult.error = "Access token not found"
    /\ accessGrants # EmptyMap

\* C29: the token entry of every token is true exactly when a grant is
\* stored for the token and that grant is not revoked.
C29_TokenEntriesMatchGrants ==
    \A k \in AllTokens :
        ( k \in DOMAIN accessTokens /\ accessTokens[k] )
            <=> ( HasGrant(k) /\ ~ accessGrants[k].isRevoked )

\* a revoked grant with a false token entry, found by a verification
C29_Witness ==
    /\ lastResult.op = "verify_access"
    /\ lastResult.failReason = "Access has been revoked"
    /\ accessTokens[lastResult.accessToken] = FALSE

\* ------------------------------------------------------------------------
\* SaludAleoClient.verifyAccess on the real chain
\* ------------------------------------------------------------------------
\* iterations of the loop of waitForTransaction (MAX_POLL_ATTEMPTS in the code)
MaxPolls == 2

\* what the network does with a broadcast verify_access transaction: it is
\* accepted, it is included as rejected because an assertion of the
\* transition failed, or it is not included while the client polls
TxFates == { "accepted", "rejected", "unconfirmed" }

ChainVerifyResult(input, success, error, isValid) ==
    Result("verify_access", input.accessToken, input.doctorAddress,
           input.recordId, 0, success, error, isValid, "", NoBlock)

\* verifyAccess up to the await of waitForTransaction; thrown: execute throws.
\* The connected account stands for this.programManager, which connect sets.
chainVerifyAccess(c, accessToken, doctorAddress, recordId, thrown, fate) ==
    LET input == [ accessToken |-> accessToken, doctorAddress |-> doctorAddress,
                   recordId |-> recordId, fate |-> fate, polls |-> 0 ]
    IN  /\ calls[c].pc = "idle"
        /\ calls' = [ calls EXCEPT ![c] =
              IF demoAccount = NoAccount
              THEN Started(c, "done", input,
                           ChainVerifyResult(input, FALSE, "Not connected", FALSE))
              ELSE IF thrown
              THEN Started(c, "done", input,
                           ChainVerifyResult(input, TRUE, "Unknown error", FALSE))
              ELSE Started(c, "waiting", input, NoResult) ]
        /\ lastResult' = NoResult
        /\ UNCHANGED appGrants
        /\ UNCHANGED << wallBlock, simulatedBlockHeight, blockHeightItem,
                        accessGrants, accessTokens, transactions, demoAccount >>

\* one iteration of the loop of waitForTransaction, and the rest of
\* verifyAccess once the loop has returned; found: getTransaction returned a
\* transaction, which it can only do for one that was included
waitForTransaction(c, found) ==
    LET input == calls[c].input
        polls == input.polls + 1
    IN  /\ calls[c].pc = "waiting"
        /\ found => input.fate # "unconfirmed"
        /\ calls' = [ calls EXCEPT ![c] =
              IF found
              THEN [ @ EXCEPT !.pc = "done",
                              !.result = ChainVerifyResult(input, TRUE, "", TRUE) ]
              ELSE IF polls >= MaxPolls
              THEN [ @ EXCEPT !.pc = "done", !.input.polls = polls,
                              !.result = ChainVerifyResult(input, TRUE, "", FALSE) ]
              ELSE [ @ EXCEPT !.input.polls = polls ] ]
        /\ lastResult' = NoResult
        /\ UNCHANGED appGrants
        /\ UNCHANGED << wallBlock, simulatedBlockHeight, blockHeightItem,
                        accessGrants, accessTokens, transactions, demoAccount >>

ChainVerify ==
    \E c \in Calls, accessToken \in AsyncTokens, doctorAddress \in Addresses,
       recordId \in RecordIds, thrown \in BOOLEAN, fate \in TxFates :
        chainVerifyAccess(c, accessToken, doctorAddress, recordId, thrown, fate)

PollTransaction ==
    \E c \in Calls, found \in BOOLEAN : waitForTransaction(c, found)

ChainNext ==
    \/ ConnectAccount
    \/ ChainVerify
    \/ PollTransaction
    \/ ForgetCall

ChainSpec == Init /\ [][ChainNext]_vars

\* C28: on the real chain verifyAccess reports isValid = true only for a
\* verify_access transaction that the chain accepted.
C28_ValidOnlyIfAccepted ==
    \A c \in Calls :
        ( /\ calls[c].pc = "done"
          /\ calls[c].result.op = "verify_access"
          /\ calls[c].result.isValid )
        => calls[c].input.fate = "accepted"

\* C30: the wall-clock expiry the share dialog records for a grant of d
\* blocks is the time of issue plus d blocks of 15 seconds, so that it is
\* not before the time at which the grant's block-height expiry is reached.
C30_WallClockExpiryMatchesBlocks ==
    Generated =>
        /\ ModalExpiresAt
              = DateNow + lastResult.durationBlocks * BLOCK_TIME_SECONDS * 1000
        /\ ModalExpiresAt >= LastGrant.expiresAt * BlockMillis

\* ------------------------------------------------------------------------
\* Main APP: the grants of useRecordsStore and the listings made from them
\* ------------------------------------------------------------------------
MaxAppGrants == 2

\* `token_${Math.random()...}_${Date.now()}`
AppTokens == { <<116>> }

\* the doctor field of the dialog: left empty, or an address
AppDoctors == { <<>>, <<100>> }

\* createAccessGrant: the new grant goes to the front, with isExpired false
createAccessGrant(grant) ==
    /\ appGrants' = << [ id |-> Len(appGrants) + 1,
                         accessToken |-> grant.accessToken,
                         recordId |-> grant.recordId,
                         patientAddress |-> grant.patientAddress,
                         doctorAddress |-> grant.doctorAddress,
                         grantedAt |-> grant.grantedAt,
                         expiresAt |-> grant.expiresAt,
                         isRevoked |-> grant.isRevoked,
                         isExpired |-> FALSE ] >> \o appGrants
    /\ lastResult' = NoResult
    /\ UNCHANGED << wallBlock, simulatedBlockHeight, blockHeightItem,
                    accessGrants, accessTokens, transactions, demoAccount,
                    calls >>

\* revokeAccessGrant of the store: every grant with the token is marked
appRevokeAccessGrant(accessToken) ==
    /\ appGrants' = [ i \in 1 .. Len(appGrants) |->
                        IF appGrants[i].accessToken = accessToken
                        THEN [ appGrants[i] EXCEPT !.isRevoked = TRUE ]
                        ELSE appGrants[i] ]
    /\ lastResult' = NoResult
    /\ UNCHANGED << wallBlock, simulatedBlockHeight, blockHeightItem,
                    accessGrants, accessTokens, transactions, demoAccount,
                    calls >>

\* clearRecords
clearRecords ==
    /\ appGrants' = <<>>
    /\ lastResult' = NoResult
    /\ UNCHANGED << wallBlock, simulatedBlockHeight, blockHeightItem,
                    accessGrants, accessTokens, transactions, demoAccount,
                    calls >>

\* the share dialog of the Main APP creates a grant of durationBlocks blocks
AppShare ==
    \E accessToken \in AppTokens, recordId \in RecordIds,
       patientAddress \in Addresses, doctorAddress \in AppDoctors,
       durationBlocks \in Durations :
        /\ Len(appGrants) < MaxAppGrants
        /\ createAccessGrant(
              [ accessToken |-> accessToken, recordId |-> recordId,
                patientAddress |-> patientAddress,
                doctorAddress |-> doctorAddress, grantedAt |-> DateNow,
                expiresAt |-> DateNow + durationBlocks * BLOCK_TIME_SECONDS * 1000,
                isRevoked |-> FALSE ])

AppRevoke == \E accessToken \in AppTokens : appRevokeAccessGrant(accessToken)

AppNext ==
    \/ Tick
    \/ AppShare
    \/ AppRevoke
    \/ clearRecords

AppSpec == Init /\ [][AppNext]_vars

\* the elements of a sequence
Range(seq) == { seq[i] : i \in 1 .. Len(seq) }

\* getActiveGrants of the store
getActiveGrants ==
    SelectSeq(appGrants, LAMBDA grant : ~ grant.isRevoked /\ ~ grant.isExpired)

\* activeGrants of the Shared Access page for the signed-in user; the page
\* sorts by grantedAt, newest first, which is the order of the store
activeGrants(user) ==
    SelectSeq(appGrants,
              LAMBDA grant : /\ grant.patientAddress = user
                             /\ ~ grant.isRevoked
                             /\ ~ (grant.expiresAt < DateNow))

\* getAccessGrantsForDoctor of the demo storage
getAccessGrantsForDoctor(doctor) ==
    { accessGrants[k] : k \in
        { t \in DOMAIN accessGrants :
            /\ accessGrants[t].doctor = doctor
            /\ ~ accessGrants[t].isRevoked
            /\ accessGrants[t].expiresAt > CurrentBlockHeight } }

\* C27: no listing of active grants contains a grant whose expiry has passed
\* at the time of the query.
C27_ListingsExcludeExpired ==
    /\ \A grant \in Range(getActiveGrants) : ~ (grant.expiresAt < DateNow)
    /\ \A user \in Addresses :
          \A grant \in Range(activeGrants(user)) : ~ (grant.expiresAt < DateNow)
    /\ \A doctor \in Addresses :
          \A grant \in getAccessGrantsForDoctor(doctor) :
             grant.expiresAt > CurrentBlockHeight

====
